---- MODULE Spec2Model ----
(***************************************************************************)
(* Model of the SOP evaluator page (src/public/script.js): the textarea    *)
(* and the Evaluate button, the evaluation run started by a click          *)
(* (evaluateText), its three dimension evaluators, the suggestion          *)
(* generator, the response parser and the rendering of the result.         *)
(*                                                                         *)
(* Strings are sequences of symbols.  A symbol is one character (" ",      *)
(* "\n", a digit, "a", "x", "*") or a literal the regular expressions of   *)
(* the parser look for as a whole ("Score:", "Feedback:", "/100").  A      *)
(* fixed message of the program is a one-symbol string.                    *)
(*                                                                         *)
(* Numbers: the weights 0.4, 0.4, 0.2 are kept in tenths and final_score   *)
(* is an exact fraction [num, den]; the weighted sum of three integers in  *)
(* tenths is even, so it is never halfway between two integers and the     *)
(* rounding error of the floating-point sum cannot change Math.round.      *)
(***************************************************************************)
EXTENDS Integers, Sequences, FiniteSets, TLC

VARIABLES sopValue, btnDisabled, reading, runs, dom

vars == <<sopValue, btnDisabled, reading, runs, dom>>

-----------------------------------------------------------------------------
(* Bounds of the model *)

\* longest text typed into the textarea
MaxTextLen == 2
\* clicks on Evaluate in the input specification
MaxRuns == 2
MaxResponseLen == 3
MaxHeuristicLen == 3

-----------------------------------------------------------------------------
(* Strings *)

Whitespace == {" ", "\n"}
Digits == {"0", "1", "2", "3", "4", "5", "6", "7", "8", "9"}

DigitVal(c) ==
    CASE c = "0" -> 0 [] c = "1" -> 1 [] c = "2" -> 2 [] c = "3" -> 3
      [] c = "4" -> 4 [] c = "5" -> 5 [] c = "6" -> 6 [] c = "7" -> 7
      [] c = "8" -> 8 [] c = "9" -> 9

\* String.prototype.trim: drop the leading and the trailing whitespace
trim(s) ==
    LET keep == {i \in 1..Len(s) : s[i] \notin Whitespace}
    IN  IF keep = {} THEN << >>
        ELSE LET first == CHOOSE i \in keep : \A j \in keep : i <= j
                 last  == CHOOSE i \in keep : \A j \in keep : j <= i
             IN  SubSeq(s, first, last)

\* the first index >= i of s whose symbol is not in set, Len(s)+1 if none
SkipWhile(s, i, set) ==
    LET stop == {j \in i..Len(s) : s[j] \notin set}
    IN  IF stop = {} THEN Len(s) + 1
        ELSE CHOOSE j \in stop : \A k \in stop : j <= k

\* parseInt of a non-empty run of decimal digits
RECURSIVE parseInt(_)
parseInt(ds) ==
    IF ds = << >> THEN 0
    ELSE 10 * parseInt(SubSeq(ds, 1, Len(ds) - 1)) + DigitVal(ds[Len(ds)])

-----------------------------------------------------------------------------
(* JavaScript values handed to the parser and to template literals *)

Undefined == [t |-> "undefined", n |-> 0, s |-> << >>]
Str(s)    == [t |-> "string",    n |-> 0, s |-> s]
Num(n)    == [t |-> "number",    n |-> n, s |-> << >>]
Obj       == [t |-> "object",    n |-> 0, s |-> << >>]

\* ${v} in a template literal
Interpolate(v) ==
    CASE v.t = "string"    -> v.s
      [] v.t = "number"    -> <<ToString(v.n)>>
      [] v.t = "object"    -> <<"[object Object]">>
      [] v.t = "undefined" -> <<"undefined">>

-----------------------------------------------------------------------------
(* Exceptions: a function body either returns a value or throws *)

Return(v) == [threw |-> FALSE, value |-> v]
Raise     == [threw |-> TRUE]

\* try { body } catch (error) { return fallback }
TryCatch(body, fallback) == IF body.threw THEN Return(fallback) ELSE body

-----------------------------------------------------------------------------
(* Response parser *)

NoFeedback == <<"No feedback available">>
ParseError == <<"Error parsing evaluation response.">>

\* /Score:\s*(\d+)\/100/ matching at index i: the digits captured, << >> if
\* the expression does not match there
ScoreMatchAt(s, i) ==
    IF s[i] # "Score:" THEN << >>
    ELSE LET j == SkipWhile(s, i + 1, Whitespace)
             k == SkipWhile(s, j, Digits)
         IN  IF k > j /\ k <= Len(s) /\ s[k] = "/100"
             THEN SubSeq(s, j, k - 1)
             ELSE << >>

\* response.match(/Score:\s*(\d+)\/100/): capture of the leftmost match
scoreMatch(s) ==
    LET hits == {i \in 1..Len(s) : ScoreMatchAt(s, i) # << >>}
    IN  IF hits = {} THEN << >>
        ELSE ScoreMatchAt(s, CHOOSE i \in hits : \A j \in hits : i <= j)

\* the feedback expression with a greedy capture and no lookahead: the text
\* runs to the end of the string whatever follows
feedbackMatchToEnd(s) ==
    LET hits == {i \in 1..Len(s) : s[i] = "Feedback:"}
    IN  IF hits = {} THEN [found |-> FALSE, text |-> << >>]
        ELSE LET i == CHOOSE h \in hits : \A j \in hits : h <= j
             IN  [found |-> TRUE, text |-> SubSeq(s, i + 1, Len(s))]

\* response.match(/Feedback:\s*([\s\S]*?)(?=Score:|$)/): the leftmost
\* "Feedback:", the whitespace after it, then the shortest text that is
\* followed by "Score:" or by the end of the string
feedbackMatch(s) ==
    LET hits == {i \in 1..Len(s) : s[i] = "Feedback:"}
    IN  IF hits = {} THEN [found |-> FALSE, text |-> << >>]
        ELSE LET i == CHOOSE h \in hits : \A j \in hits : h <= j
                 j == SkipWhile(s, i + 1, Whitespace)
                 k == SkipWhile(s, j, UNION {{s[m]} : m \in 1..Len(s)} \ {"Score:"})
             IN  [found |-> TRUE, text |-> SubSeq(s, j, k - 1)]

\* the parser without its try/catch
parseEvaluationResponseNoCatch(response) ==
    IF response.t # "string"
    THEN Raise
    ELSE LET m == scoreMatch(response.s)
             f == feedbackMatch(response.s)
         IN  Return([score    |-> IF m # << >> THEN parseInt(m) ELSE 0,
                     feedback |-> IF f.found THEN trim(f.text) ELSE NoFeedback])

\* the score is every digit of the capture: nothing clamps it to 0..100
parseEvaluationResponse(response) ==
    TryCatch(
        IF response.t # "string"
        THEN Raise   \* response.match is not a function
        ELSE LET m == scoreMatch(response.s)
                 f == feedbackMatch(response.s)
             IN  Return([score    |-> IF m # << >> THEN parseInt(m) ELSE 0,
                         feedback |-> IF f.found THEN trim(f.text) ELSE NoFeedback]),
        [score |-> 0, feedback |-> ParseError])

\* The parser of src/unnamed/part_001.
\* /Score:\s*(\d+)|(\d+)\/100/ matching at index i: the digits captured by
\* whichever alternative matches, << >> if neither does
ScoreMatchAt_part001(s, i) ==
    IF s[i] = "Score:"
    THEN LET j == SkipWhile(s, i + 1, Whitespace)
             k == SkipWhile(s, j, Digits)
         IN  IF k > j THEN SubSeq(s, j, k - 1) ELSE << >>
    ELSE IF s[i] \in Digits
    THEN LET k == SkipWhile(s, i, Digits)
         IN  IF k <= Len(s) /\ s[k] = "/100" THEN SubSeq(s, i, k - 1) ELSE << >>
    ELSE << >>

\* response.match(/Score:\s*(\d+)|(\d+)\/100/): capture of the leftmost match
scoreMatch_part001(s) ==
    LET hits == {i \in 1..Len(s) : ScoreMatchAt_part001(s, i) # << >>}
    IN  IF hits = {} THEN << >>
        ELSE ScoreMatchAt_part001(s, CHOOSE i \in hits : \A j \in hits : i <= j)

\* /Score:\s*\d+\/100|\d+\/100/ matching at index i: the index of the "/100"
\* that ends the match, 0 if the expression does not match there
RemovedAt_part001(s, i) ==
    LET j == IF s[i] = "Score:" THEN SkipWhile(s, i + 1, Whitespace) ELSE i
        k == SkipWhile(s, j, Digits)
    IN  IF k > j /\ k <= Len(s) /\ s[k] = "/100" THEN k ELSE 0

\* response.replace(/Score:\s*\d+\/100|\d+\/100/, ''): the leftmost match
\* taken out of the response
replace_part001(s) ==
    LET hits == {i \in 1..Len(s) : RemovedAt_part001(s, i) # 0}
    IN  IF hits = {} THEN s
        ELSE LET i == CHOOSE h \in hits : \A j \in hits : h <= j
             IN  SubSeq(s, 1, i - 1) \o SubSeq(s, RemovedAt_part001(s, i) + 1, Len(s))

parseEvaluationResponse_part001(response) ==
    TryCatch(
        IF response.t # "string"
        THEN Raise   \* response.match is not a function
        ELSE LET m == scoreMatch_part001(response.s)
             IN  Return([score    |-> IF m # << >> THEN parseInt(m) ELSE 0,
                         feedback |-> trim(replace_part001(response.s))]),
        [score |-> 0, feedback |-> ParseError])

-----------------------------------------------------------------------------
(* Outbound calls to the generation capability *)

Dims  == {"content", "narrative", "language"}
Calls == Dims \cup {"suggestions"}

\* What a call comes back with: fetch rejects ("reject"), response.json()
\* rejects ("nonjson"), the body has no choices[0] ("nochoices"), the
\* message has no content ("nocontent"), or the message content.
Answer(kind, content) == [kind |-> kind, content |-> content]
NoAnswer == Answer("none", << >>)

\* fetch or response.json() rejects, or reading data.choices[0].message
\* throws a TypeError
Throws(a) == a.kind \in {"reject", "nonjson", "nochoices"}

\* data.choices[0].message.content
MessageContent(a) == IF a.kind = "content" THEN Str(a.content) ELSE Undefined

evaluateContent(text, a) ==
    TryCatch(
        IF Throws(a) THEN Raise ELSE parseEvaluationResponse(MessageContent(a)),
        [score |-> 0, feedback |-> <<"Error evaluating content. Please try again.">>])

\* evaluateContent of src/unnamed/part_001
evaluateContent_part001(text, a) ==
    TryCatch(
        IF Throws(a) THEN Raise ELSE parseEvaluationResponse_part001(MessageContent(a)),
        [score |-> 0, feedback |-> <<"Error evaluating content. Please try again.">>])

evaluateNarrative(text, a) ==
    TryCatch(
        IF Throws(a) THEN Raise ELSE parseEvaluationResponse(MessageContent(a)),
        [score |-> 0, feedback |-> <<"Error evaluating narrative. Please try again.">>])

\* the language evaluator without its try/catch
evaluateLanguageNoCatch(text, a) ==
    IF Throws(a) THEN Raise ELSE parseEvaluationResponse(MessageContent(a))

evaluateLanguage(text, a) ==
    TryCatch(
        IF Throws(a) THEN Raise ELSE parseEvaluationResponse(MessageContent(a)),
        [score |-> 0, feedback |-> <<"Error evaluating language. Please try again.">>])

NoSuggestions == <<"Unable to generate suggestions at this time.">>

\* property read scores[key] of the results object built by evaluateText,
\* for the keys the template reads: a dimension's entry is an object
\* {score, feedback}, a key the object does not have reads undefined
Prop(scores, key) ==
    IF key \in DOMAIN scores /\ key \in Dims THEN Obj ELSE Undefined

\* the instruction of generateModificationSuggestions: the values its
\* template interpolates, slot by slot
SuggestionPrompt(text, scores) ==
    [score    |-> [d \in Dims |-> Interpolate(Prop(scores, d))],
     feedback |-> [d \in Dims |->
                     Interpolate(Prop(scores,
                        CASE d = "content"   -> "contentFeedback"
                          [] d = "narrative" -> "narrativeFeedback"
                          [] d = "language"  -> "languageFeedback"))],
     text     |-> text]

\* the generator without its try/catch
generateModificationSuggestionsNoCatch(a) ==
    IF Throws(a) THEN Raise
    ELSE LET c == MessageContent(a)
         IN  IF c.t = "undefined" \/ c.s = << >> THEN Raise ELSE Return(c.s)

\* what generateModificationSuggestions returns once its call came back
generateModificationSuggestions(a) ==
    TryCatch(
        IF Throws(a) THEN Raise
        ELSE LET c == MessageContent(a)
             IN  IF c.t = "undefined" \/ c.s = << >>
                 THEN Raise   \* 'Invalid API response format'
                 ELSE Return(c.s),
        NoSuggestions)

\* the weights in tenths
WEIGHTS == [content |-> 4, narrative |-> 4, language |-> 2]

\* the weighted sum without the scaling of the weights
FinalScoreUnscaled(c, n, l) ==
    [num |-> c * WEIGHTS.content + n * WEIGHTS.narrative + l * WEIGHTS.language,
     den |-> 1]

\* (c * 0.4 + n * 0.4 + l * 0.2) / 100 as a fraction
FinalScore(c, n, l) ==
    [num |-> c * WEIGHTS.content + n * WEIGHTS.narrative + l * WEIGHTS.language,
     den |-> 10 * 100]

\* Math.round of a non-negative fraction: floor(x + 0.5)
MathRound(q) == (2 * q.num + q.den) \div (2 * q.den)

-----------------------------------------------------------------------------
(* Rendering *)

\* the elements evaluateText puts into the loading state
Cards == Dims \cup {"final"}

\* s.split(sep)
RECURSIVE split(_, _)
split(s, sep) ==
    LET at == {i \in 1..Len(s) : s[i] = sep}
    IN  IF at = {} THEN <<s>>
        ELSE LET i == CHOOSE k \in at : \A j \in at : k <= j
             IN  <<SubSeq(s, 1, i - 1)>> \o split(SubSeq(s, i + 1, Len(s)), sep)

\* lines.join(sep)
RECURSIVE join(_, _)
join(lines, sep) ==
    IF lines = << >> THEN << >>
    ELSE IF Len(lines) = 1 THEN lines[1]
    ELSE lines[1] \o <<sep>> \o join(Tail(lines), sep)

\* the lines of the suggestions trimmed, the empty ones dropped, joined,
\* then newline -> <br>, bullet and asterisk -> &bull;
formatSuggestions(s) ==
    LET lines   == split(s, "\n")
        trimmed == [i \in 1..Len(lines) |-> trim(lines[i])]
        kept    == SelectSeq(trimmed, LAMBDA l : Len(l) > 0)
        joined  == join(kept, "\n")
    IN  [i \in 1..Len(joined) |->
            CASE joined[i] = "\n" -> "<br>"
              [] joined[i] = "*"  -> "&bull;"
              [] OTHER            -> joined[i]]

\* displayScores(scores): the page after rendering a results object.  The
\* score texts hold the number n of "n/100", << >> is the initial "--".
displayScores(d, scores) ==
    [loading       |-> d.loading \ Dims,
     score         |-> [k \in Dims |-> <<scores[k].score>>],
     feedback      |-> [k \in Dims |->
                          IF scores[k].feedback = << >> THEN NoFeedback
                          ELSE scores[k].feedback],
     final         |-> <<MathRound(scores.final_score)>>,
     resultsHidden |-> FALSE,
     suggHidden    |-> IF scores.suggestions # << >> THEN FALSE ELSE d.suggHidden,
     suggContent   |-> IF scores.suggestions # << >>
                       THEN formatSuggestions(scores.suggestions)
                       ELSE d.suggContent]

-----------------------------------------------------------------------------
(* State *)

Pending == [score |-> -1, feedback |-> << >>]

\* a run whose three dimension calls are issued at once
NewRunFanOut(text) ==
    [text        |-> text,
     pc          |-> "content",
     call        |-> [c \in Calls |-> IF c \in Dims THEN "inflight" ELSE "idle"],
     issued      |-> [c \in Calls |-> IF c \in Dims THEN 1 ELSE 0],
     answer      |-> [c \in Calls |-> NoAnswer],
     results     |-> [content |-> Pending, narrative |-> Pending, language |-> Pending,
                      final_score |-> [num |-> 0, den |-> 1], suggestions |-> << >>],
     prompt      |-> [score    |-> [d \in Dims |-> << >>],
                      feedback |-> [d \in Dims |-> << >>],
                      text     |-> << >>]]

\* a run of evaluateText right after the click: the loading state is set
\* and evaluateContent has issued its call
NewRun(text) ==
    [text        |-> text,
     pc          |-> "content",
     call        |-> [c \in Calls |-> IF c = "content" THEN "inflight" ELSE "idle"],
     issued      |-> [c \in Calls |-> IF c = "content" THEN 1 ELSE 0],
     answer      |-> [c \in Calls |-> NoAnswer],
     results     |-> [content |-> Pending, narrative |-> Pending, language |-> Pending,
                      final_score |-> [num |-> 0, den |-> 1], suggestions |-> << >>],
     prompt      |-> [score    |-> [d \in Dims |-> << >>],
                      feedback |-> [d \in Dims |-> << >>],
                      text     |-> << >>]]

Init ==
    /\ sopValue = << >>
    /\ btnDisabled = TRUE
    /\ reading = {}
    /\ runs = << >>
    /\ dom = [loading       |-> {},
              score         |-> [k \in Dims |-> << >>],
              feedback      |-> [k \in Dims |-> << >>],
              final         |-> << >>,
              resultsHidden |-> TRUE,
              suggHidden    |-> TRUE,
              suggContent   |-> << >>]

-----------------------------------------------------------------------------
(* Inputs *)

Chars == {" ", "a"}
StringsUpTo(n) == UNION {[1..k -> Chars] : k \in 0..n}

\* what the user can type
Texts == StringsUpTo(MaxTextLen)

MaxFileSize == 5 * 1024 * 1024
allowedTypes == {"text/plain", "application/msword",
                 "application/vnd.openxmlformats-officedocument.wordprocessingml.document",
                 "application/pdf"}

\* the text of a file: empty, whitespace only, or not
FileTexts == StringsUpTo(1)

\* the files the user can choose or drop
Files == [size    : {1, MaxFileSize, MaxFileSize + 1},
          type    : {"text/plain", "application/pdf", "image/png"},
          content : FileTexts]

Text(score) ==
    <<"Score:", " ">> \o score \o <<"/100", "\n", "Feedback:", " ", "x">>

\* what the capability can answer to a dimension call
DimensionAnswers ==
    {Answer("reject", << >>), Answer("nonjson", << >>), Answer("nochoices", << >>),
     Answer("nocontent", << >>), Answer("content", << >>),
     Answer("content", Text(<<"8", "0">>)),
     Answer("content", Text(<<"9", "0">>)),
     Answer("content", Text(<<"2", "5", "0">>))}

\* what it can answer to the suggestion call
SuggestionAnswers ==
    {Answer("reject", << >>), Answer("nonjson", << >>), Answer("nochoices", << >>),
     Answer("nocontent", << >>), Answer("content", << >>),
     Answer("content", <<"*", " ", "x", "\n", " ", "\n", "x">>)}

-----------------------------------------------------------------------------
(* Actions *)

\* the listener without trim(): disabled only for the empty string
inputListenerNoTrim(value) == value = << >>

\* the textarea's input listener: evaluateBtn.disabled = !sopText.value.trim()
inputListener(value) == trim(value) = << >>

\* the user edits the textarea
Type(s) ==
    /\ sopValue' = s
    /\ btnDisabled' = inputListener(s)
    /\ UNCHANGED <<reading, runs, dom>>

\* handleFileUpload up to the start of the read: a file that is too large,
\* of an unsupported type or not plain text only raises an alert
ChooseFile(f) ==
    /\ reading' = IF f.size > MaxFileSize \/ f.type \notin allowedTypes
                     \/ f.type # "text/plain"
                  THEN reading
                  ELSE reading \cup {f.content}
    /\ UNCHANGED <<sopValue, btnDisabled, runs, dom>>

\* the read ends: the text goes into the textarea and an input event is
\* dispatched
ReadDone(c) ==
    /\ c \in reading
    /\ reading' = reading \ {c}
    /\ sopValue' = c
    /\ btnDisabled' = inputListener(c)
    /\ UNCHANGED <<runs, dom>>

\* the read fails: an alert
ReadError(c) ==
    /\ c \in reading
    /\ reading' = reading \ {c}
    /\ UNCHANGED <<sopValue, btnDisabled, runs, dom>>

\* a click on Evaluate (a disabled button dispatches none): the listener
\* calls evaluateText, which runs up to the fetch of evaluateContent
Click ==
    /\ ~btnDisabled
    /\ runs' = Append(runs, NewRun(trim(sopValue)))
    /\ dom' = [dom EXCEPT !.loading = @ \cup Cards]
    /\ UNCHANGED <<sopValue, btnDisabled, reading>>

\* the click listener of src/unnamed/part_001: no loading state
Click_part001 ==
    /\ ~btnDisabled
    /\ runs' = Append(runs, NewRun(trim(sopValue)))
    /\ UNCHANGED <<sopValue, btnDisabled, reading, dom>>

\* the content call of a run of src/unnamed/part_001 comes back
ResolveContent_part001(r, a) ==
    /\ runs[r].pc = "content"
    /\ LET contentEval == evaluateContent_part001(runs[r].text, a)
       IN  runs' = [runs EXCEPT ![r] =
                 [@ EXCEPT !.pc = "narrative",
                           !.call = [@ EXCEPT !.content = "done",
                                              !.narrative = "inflight"],
                           !.issued = [@ EXCEPT !.narrative = @ + 1],
                           !.answer = [@ EXCEPT !.content = a],
                           !.results = [@ EXCEPT !.content = contentEval.value]]]
    /\ UNCHANGED <<sopValue, btnDisabled, reading, dom>>

\* the catch of evaluateText: the loading state is removed and the error is
\* thrown on to the click listener, which renders nothing
Thrown(r) ==
    /\ runs' = [runs EXCEPT ![r] = [@ EXCEPT !.pc = "thrown"]]
    /\ dom' = [dom EXCEPT !.loading = @ \ Cards]

\* the content step issuing its call a second time when the first failed
ResolveContentRetry(r, a) ==
    /\ runs[r].pc = "content"
    /\ LET contentResult == evaluateContent(runs[r].text, a)
       IN  runs' = [runs EXCEPT ![r] =
                 IF Throws(a) /\ runs[r].issued.content < 2
                 THEN [@ EXCEPT !.issued = [@ EXCEPT !.content = @ + 1]]
                 ELSE [@ EXCEPT !.pc = "narrative",
                                !.call = [@ EXCEPT !.content = "done",
                                                   !.narrative = "inflight"],
                                !.issued = [@ EXCEPT !.narrative = @ + 1],
                                !.answer = [@ EXCEPT !.content = a],
                                !.results = [@ EXCEPT !.content = contentResult.value]]]
    /\ UNCHANGED <<sopValue, btnDisabled, reading, dom>>

\* the content step starting the suggestion call without awaiting the
\* other two dimensions
ResolveContentThenSuggest(r, a) ==
    /\ runs[r].pc = "content"
    /\ LET contentResult == evaluateContent(runs[r].text, a)
       IN  runs' = [runs EXCEPT ![r] =
                 [@ EXCEPT !.pc = "suggestions",
                           !.call = [@ EXCEPT !.content = "done",
                                              !.suggestions = "inflight"],
                           !.issued = [@ EXCEPT !.suggestions = @ + 1],
                           !.answer = [@ EXCEPT !.content = a],
                           !.results = [@ EXCEPT !.content = contentResult.value]]]
    /\ UNCHANGED <<sopValue, btnDisabled, reading, dom>>

\* the content call comes back; evaluateNarrative issues its call
ResolveContent(r, a) ==
    /\ runs[r].pc = "content"
    /\ LET contentResult == evaluateContent(runs[r].text, a)
       IN  IF contentResult.threw THEN Thrown(r)
           ELSE /\ runs' = [runs EXCEPT ![r] =
                     [@ EXCEPT !.pc = "narrative",
                               !.call = [@ EXCEPT !.content = "done",
                                                  !.narrative = "inflight"],
                               !.issued = [@ EXCEPT !.narrative = @ + 1],
                               !.answer = [@ EXCEPT !.content = a],
                               !.results = [@ EXCEPT !.content = contentResult.value]]]
                /\ UNCHANGED dom
    /\ UNCHANGED <<sopValue, btnDisabled, reading>>

\* the narrative step giving up when the content call of the run had
\* failed: one dimension's failure leaking into another
ResolveNarrativeAfterFailure(r, a) ==
    /\ runs[r].pc = "narrative"
    /\ LET narrativeResult ==
               IF Throws(runs[r].answer.content)
               THEN Return([score |-> 0, feedback |->
                              <<"Error evaluating narrative. Please try again.">>])
               ELSE evaluateNarrative(runs[r].text, a)
       IN  runs' = [runs EXCEPT ![r] =
                 [@ EXCEPT !.pc = "language",
                           !.call = [@ EXCEPT !.narrative = "done",
                                              !.language = "inflight"],
                           !.issued = [@ EXCEPT !.language = @ + 1],
                           !.answer = [@ EXCEPT !.narrative = a],
                           !.results = [@ EXCEPT !.narrative = narrativeResult.value]]]
    /\ UNCHANGED <<sopValue, btnDisabled, reading, dom>>

\* the narrative call comes back; evaluateLanguage issues its call
ResolveNarrative(r, a) ==
    /\ runs[r].pc = "narrative"
    /\ LET narrativeResult == evaluateNarrative(runs[r].text, a)
       IN  IF narrativeResult.threw THEN Thrown(r)
           ELSE /\ runs' = [runs EXCEPT ![r] =
                     [@ EXCEPT !.pc = "language",
                               !.call = [@ EXCEPT !.narrative = "done",
                                                  !.language = "inflight"],
                               !.issued = [@ EXCEPT !.language = @ + 1],
                               !.answer = [@ EXCEPT !.narrative = a],
                               !.results = [@ EXCEPT !.narrative = narrativeResult.value]]]
                /\ UNCHANGED dom
    /\ UNCHANGED <<sopValue, btnDisabled, reading>>

\* the results object of evaluateText once the three dimensions are in
Aggregate(contentResult, narrativeResult, languageResult) ==
    [content     |-> contentResult,
     narrative   |-> narrativeResult,
     language    |-> languageResult,
     final_score |-> FinalScore(contentResult.score, narrativeResult.score,
                                languageResult.score)]

\* the language step aggregating a content result kept in a variable all
\* runs share, which holds the result of the run started last
ResolveLanguageShared(r, a) ==
    /\ runs[r].pc = "language"
    /\ LET languageResult == evaluateLanguage(runs[r].text, a)
           results == Aggregate(runs[Len(runs)].results.content,
                                runs[r].results.narrative,
                                languageResult.value)
       IN  runs' = [runs EXCEPT ![r] =
                 [@ EXCEPT !.pc = "suggestions",
                           !.call = [@ EXCEPT !.language = "done",
                                              !.suggestions = "inflight"],
                           !.issued = [@ EXCEPT !.suggestions = @ + 1],
                           !.answer = [@ EXCEPT !.language = a],
                           !.results = results @@ [suggestions |-> << >>],
                           !.prompt = SuggestionPrompt(runs[r].text, results)]]
    /\ UNCHANGED <<sopValue, btnDisabled, reading, dom>>

\* the language call comes back; evaluateText computes the final score and
\* generateModificationSuggestions builds its instruction and issues its call
ResolveLanguage(r, a) ==
    /\ runs[r].pc = "language"
    /\ LET languageResult == evaluateLanguage(runs[r].text, a)
       IN  IF languageResult.threw THEN Thrown(r)
           ELSE LET results == Aggregate(runs[r].results.content,
                                         runs[r].results.narrative,
                                         languageResult.value)
                IN  /\ runs' = [runs EXCEPT ![r] =
                         [@ EXCEPT !.pc = "suggestions",
                                   !.call = [@ EXCEPT !.language = "done",
                                                      !.suggestions = "inflight"],
                                   !.issued = [@ EXCEPT !.suggestions = @ + 1],
                                   !.answer = [@ EXCEPT !.language = a],
                                   !.results = results @@ [suggestions |-> << >>],
                                   !.prompt = SuggestionPrompt(runs[r].text, results)]]
                    /\ UNCHANGED dom
    /\ UNCHANGED <<sopValue, btnDisabled, reading>>

\* the suggestion call comes back; evaluateText renders the results and
\* returns them, and the click listener renders them again and shows the
\* results section
ResolveSuggestions(r, a) ==
    /\ runs[r].pc = "suggestions"
    /\ LET suggestions == generateModificationSuggestions(a)
       IN  IF suggestions.threw THEN Thrown(r)
           ELSE LET results == [runs[r].results EXCEPT
                                  !.suggestions = suggestions.value]
                IN  /\ runs' = [runs EXCEPT ![r] =
                         [@ EXCEPT !.pc = "returned",
                                   !.call = [@ EXCEPT !.suggestions = "done"],
                                   !.answer = [@ EXCEPT !.suggestions = a],
                                   !.results = results]]
                    /\ dom' = [displayScores(displayScores(dom, results), results)
                                 EXCEPT !.resultsHidden = FALSE]
    /\ UNCHANGED <<sopValue, btnDisabled, reading>>

-----------------------------------------------------------------------------
(* One evaluation: the user types, then clicks Evaluate once; the text is  *)
(* fixed from the click on                                                 *)

Next ==
    \/ \E s \in Texts : (runs = << >> /\ Type(s))
    \/ (runs = << >> /\ Click)
    \/ \E r \in DOMAIN runs, a \in DimensionAnswers : ResolveContent(r, a)
    \/ \E r \in DOMAIN runs, a \in DimensionAnswers : ResolveNarrative(r, a)
    \/ \E r \in DOMAIN runs, a \in DimensionAnswers : ResolveLanguage(r, a)
    \/ \E r \in DOMAIN runs, a \in SuggestionAnswers : ResolveSuggestions(r, a)

Spec == Init /\ [][Next]_vars

\* the same, every outbound call eventually resolving or rejecting
SpecLive ==
    /\ Init /\ [][Next]_vars
    /\ WF_vars(\E r \in DOMAIN runs, a \in DimensionAnswers : ResolveContent(r, a))
    /\ WF_vars(\E r \in DOMAIN runs, a \in DimensionAnswers : ResolveNarrative(r, a))
    /\ WF_vars(\E r \in DOMAIN runs, a \in DimensionAnswers : ResolveLanguage(r, a))
    /\ WF_vars(\E r \in DOMAIN runs, a \in SuggestionAnswers : ResolveSuggestions(r, a))

(* Input events: typing, file uploads and up to MaxRuns clicks *)

NextInput ==
    \/ \E s \in Texts : Type(s)
    \/ \E f \in Files : ChooseFile(f)
    \/ \E c \in reading : ReadDone(c)
    \/ \E c \in reading : ReadError(c)
    \/ (Len(runs) < MaxRuns /\ Click)

SpecInput == Init /\ [][NextInput]_vars

(* Two runs on the same text: a second click while the first run is in     *)
(* flight; the text is fixed from the first click on                       *)

PairDimensionAnswers ==
    {Answer("reject", << >>),
     Answer("content", Text(<<"8", "0">>)),
     Answer("content", Text(<<"9", "0">>))}

PairSuggestionAnswers ==
    {Answer("reject", << >>), Answer("content", <<"*", " ", "x">>)}

NextTwo ==
    \/ \E s \in Texts : (runs = << >> /\ Type(s))
    \/ (Len(runs) < 2 /\ Click)
    \/ \E r \in DOMAIN runs, a \in PairDimensionAnswers : ResolveContent(r, a)
    \/ \E r \in DOMAIN runs, a \in PairDimensionAnswers : ResolveNarrative(r, a)
    \/ \E r \in DOMAIN runs, a \in PairDimensionAnswers : ResolveLanguage(r, a)
    \/ \E r \in DOMAIN runs, a \in PairSuggestionAnswers : ResolveSuggestions(r, a)

SpecTwo == Init /\ [][NextTwo]_vars

-----------------------------------------------------------------------------
(* The response parser on its own: one run up to the answer of its content
   call, the answer drawn from the texts below *)

\* the symbols the two expressions of the parser tell apart
ParseSymbols == {"Score:", "Feedback:", "/100", " ", "8", "x"}

\* every response text of at most MaxResponseLen symbols
ShortResponses ==
    UNION {[1..n -> ParseSymbols] : n \in 0..MaxResponseLen}

\* A response holding `Score: <n>/100` followed by `Feedback: <t>`:
\* pre, "Score:", ws, digits, "/100", mid, "Feedback:", raw, rest, together
\* with the number n the digits write and the text t that raw is once its
\* surrounding whitespace is removed. pre holds no score and no "Feedback:",
\* mid no "Feedback:", raw no "Score:", and rest is empty or starts with
\* "Score:".
ScoreThenFeedback ==
    [pre    : {<< >>, <<"x", " ">>, <<"Score:", "x">>},
     ws     : {<<" ">>, << >>},
     number : {[digits |-> <<"8", "5">>, n |-> 85],
               [digits |-> <<"0">>, n |-> 0],
               [digits |-> <<"0", "7">>, n |-> 7],
               [digits |-> <<"1", "0", "0">>, n |-> 100]},
     mid    : {<<"\n">>, << >>, <<" ", "x", " ">>,
               <<"Score:", " ", "9", "/100", " ">>},
     text   : {[raw |-> <<" ", "Strong", " ", "opening.">>,
                t   |-> <<"Strong", " ", "opening.">>],
               [raw |-> <<"x">>, t |-> <<"x">>],
               [raw |-> <<"\n", " ", "x", " ", "x", " ", "\n">>,
                t   |-> <<"x", " ", "x">>],
               [raw |-> <<" ", "x", "Feedback:", "8", "/100">>,
                t   |-> <<"x", "Feedback:", "8", "/100">>],
               [raw |-> <<" ", "\n">>, t |-> << >>]},
     rest   : {<< >>, <<"Score:">>, <<"Score:", " ", "9", "0", "/100">>}]

Compose(p) ==
    p.pre \o <<"Score:">> \o p.ws \o p.number.digits \o <<"/100">> \o p.mid
          \o <<"Feedback:">> \o p.text.raw \o p.rest

\* the answers a content call of the parser runs comes back with
ParseAnswers ==
    {Answer("nocontent", << >>)}
        \cup {Answer("content", t) : t \in ShortResponses}
        \cup {Answer("content", Compose(p)) : p \in ScoreThenFeedback}

NextParse ==
    \/ \E s \in Texts : (runs = << >> /\ Type(s))
    \/ (runs = << >> /\ Click)
    \/ \E r \in DOMAIN runs, a \in ParseAnswers : ResolveContent(r, a)

SpecParse == Init /\ [][NextParse]_vars

\* the same on the page of src/unnamed/part_001
NextParse_part001 ==
    \/ \E s \in Texts : (runs = << >> /\ Type(s))
    \/ (runs = << >> /\ Click_part001)
    \/ \E r \in DOMAIN runs, a \in ParseAnswers : ResolveContent_part001(r, a)

SpecParse_part001 == Init /\ [][NextParse_part001]_vars

-----------------------------------------------------------------------------
(* The page of src/unnamed/part_003: the evaluators and the parser are those
   of script.js, evaluateText rounds the final score and renders nothing,
   and the click listener does not await it. *)

evaluateContent_part003(text, a)   == evaluateContent(text, a)
evaluateNarrative_part003(text, a) == evaluateNarrative(text, a)
evaluateLanguage_part003(text, a)  == evaluateLanguage(text, a)

\* displayScores(scores). The listener passes the promise evaluateText
\* returned, an object without own properties: Object.entries gives no
\* dimension and the final score reads `${undefined}/100`.
displayScores_part003(d, scores) ==
    IF scores = Obj
    THEN [d EXCEPT !.final = <<"undefined">>]
    ELSE [d EXCEPT !.score    = [k \in Dims |-> <<scores[k].score>>],
                   !.feedback = [k \in Dims |-> scores[k].feedback],
                   !.final    = <<scores.final_score.num>>]

\* the click listener: evaluateText runs up to its first await, then the
\* listener renders the promise and reveals the results section
Click_part003 ==
    /\ ~btnDisabled
    /\ runs' = Append(runs, NewRun(trim(sopValue)))
    /\ dom' = [displayScores_part003([dom EXCEPT !.loading = @ \cup Dims], Obj)
                 EXCEPT !.resultsHidden = FALSE]
    /\ UNCHANGED <<sopValue, btnDisabled, reading>>

ResolveContent_part003(r, a) ==
    /\ runs[r].pc = "content"
    /\ LET contentResult == evaluateContent_part003(runs[r].text, a)
       IN  runs' = [runs EXCEPT ![r] =
                 [@ EXCEPT !.pc = "narrative",
                           !.call = [@ EXCEPT !.content = "done",
                                              !.narrative = "inflight"],
                           !.issued = [@ EXCEPT !.narrative = @ + 1],
                           !.answer = [@ EXCEPT !.content = a],
                           !.results = [@ EXCEPT !.content = contentResult.value]]]
    /\ UNCHANGED <<sopValue, btnDisabled, reading, dom>>

ResolveNarrative_part003(r, a) ==
    /\ runs[r].pc = "narrative"
    /\ LET narrativeResult == evaluateNarrative_part003(runs[r].text, a)
       IN  runs' = [runs EXCEPT ![r] =
                 [@ EXCEPT !.pc = "language",
                           !.call = [@ EXCEPT !.narrative = "done",
                                              !.language = "inflight"],
                           !.issued = [@ EXCEPT !.language = @ + 1],
                           !.answer = [@ EXCEPT !.narrative = a],
                           !.results = [@ EXCEPT !.narrative = narrativeResult.value]]]
    /\ UNCHANGED <<sopValue, btnDisabled, reading, dom>>

\* the language call comes back: the final score is rounded, the promise
\* resolves with the results, which nothing reads, and the finally block
\* takes the score cards out of the loading state
ResolveLanguage_part003(r, a) ==
    /\ runs[r].pc = "language"
    /\ LET languageResult == evaluateLanguage_part003(runs[r].text, a).value
           finalScore == MathRound(
               [num |-> runs[r].results.content.score * WEIGHTS.content
                        + runs[r].results.narrative.score * WEIGHTS.narrative
                        + languageResult.score * WEIGHTS.language,
                den |-> 10])
       IN  runs' = [runs EXCEPT ![r] =
                 [@ EXCEPT !.pc = "returned",
                           !.call = [@ EXCEPT !.language = "done"],
                           !.answer = [@ EXCEPT !.language = a],
                           !.results = [@ EXCEPT !.language = languageResult,
                                                 !.final_score = [num |-> finalScore,
                                                                  den |-> 1]]]]
    /\ dom' = [dom EXCEPT !.loading = @ \ Dims]
    /\ UNCHANGED <<sopValue, btnDisabled, reading>>

NextPart003 ==
    \/ \E s \in Texts : (runs = << >> /\ Type(s))
    \/ (runs = << >> /\ Click_part003)
    \/ \E r \in DOMAIN runs, a \in DimensionAnswers : ResolveContent_part003(r, a)
    \/ \E r \in DOMAIN runs, a \in DimensionAnswers : ResolveNarrative_part003(r, a)
    \/ \E r \in DOMAIN runs, a \in DimensionAnswers : ResolveLanguage_part003(r, a)

SpecPart003 == Init /\ [][NextPart003]_vars

-----------------------------------------------------------------------------
(* Heuristic mode, src/unnamed/part_002: the scores are computed in the page
   from keyword and sentence heuristics. The helpers work on the characters
   of the text, which is the string the symbols of the textarea spell. *)

Char(s, i) == SubSeq(s, i, i)

\* the string a sequence of symbols spells
RECURSIVE Flat(_)
Flat(text) == IF text = << >> THEN "" ELSE Head(text) \o Flat(Tail(text))

LowerLetters == "abcdefghijklmnopqrstuvwxyz"
UpperLetters == "ABCDEFGHIJKLMNOPQRSTUVWXYZ"

\* \w of a regular expression
WordChars ==
    {Char(LowerLetters, i) : i \in 1..Len(LowerLetters)}
        \cup {Char(UpperLetters, i) : i \in 1..Len(UpperLetters)}
        \cup Digits \cup {"_"}

\* the lower-case letter of each upper-case one
LowerOf ==
    [c \in {Char(UpperLetters, i) : i \in 1..Len(UpperLetters)} |->
        Char(LowerLetters, CHOOSE i \in 1..Len(UpperLetters) : Char(UpperLetters, i) = c)]

Lower(c) == IF c \in DOMAIN LowerOf THEN LowerOf[c] ELSE c

\* the flag i of the regular expressions: both sides are compared in lower
\* case
RECURSIVE toLowerCase(_)
toLowerCase(s) ==
    IF Len(s) = 0 THEN ""
    ELSE IF Len(s) = 1 THEN Lower(s)
    ELSE LET half == Len(s) \div 2
         IN  toLowerCase(SubSeq(s, 1, half)) \o toLowerCase(SubSeq(s, half + 1, Len(s)))

\* \b just before character i of s: a word character on one side only
Boundary(s, i) ==
    LET IsWordAt(j) == j >= 1 /\ j <= Len(s) /\ Char(s, j) \in WordChars
    IN  IsWordAt(i - 1) # IsWordAt(i)

\* the keyword expression without its two \b: the word matches inside
\* longer words
MatchesWordAnywhere(low, word) ==
    \E i \in 1..(Len(low) - Len(word) + 1) :
        SubSeq(low, i, i + Len(word) - 1) = word

\* /\bword\b/.test(low)
MatchesWord(low, word) ==
    \E i \in 1..(Len(low) - Len(word) + 1) :
        /\ SubSeq(low, i, i + Len(word) - 1) = word
        /\ Boundary(low, i)
        /\ Boundary(low, i + Len(word))

\* /phrase/.test(low)
Contains(low, phrase) ==
    \E i \in 1..(Len(low) - Len(phrase) + 1) :
        SubSeq(low, i, i + Len(phrase) - 1) = phrase

\* the keyword expressions without the flag i
matchesCaseSensitive(text, keywords) ==
    {k \in 1..Len(keywords) : MatchesWord(text, keywords[k])}

\* keywords.filter(word => new RegExp('\\b' + word + '\\b', 'i').test(text)),
\* as the positions of the list that match
matches(text, keywords) ==
    LET low == toLowerCase(text)
    IN  {k \in 1..Len(keywords) : MatchesWord(low, toLowerCase(keywords[k]))}

\* a score that falls as more keywords match
scoreByKeywordsInverse(text, keywords) ==
    LET m    == Cardinality(matches(text, keywords))
        half == (Len(keywords) + 1) \div 2
    IN  IF m = 0 THEN 0 ELSE (5 + half * m - 1) \div (half * m)

\* the score with the quotient rounded down
scoreByKeywordsFloor(text, keywords) ==
    LET m     == Cardinality(matches(text, keywords))
        half  == (Len(keywords) + 1) \div 2
        floor == (5 * m) \div half
    IN  IF floor < 5 THEN floor ELSE 5

\* Math.min(5, Math.ceil(matches * (5 / Math.ceil(keywords.length / 2)))).
\* The ceiling is taken of the exact quotient 5 * matches / half; the
\* floating-point product can exceed it only where it reaches 5, and there
\* Math.min gives 5 either way.
scoreByKeywords(text, keywords) ==
    LET m    == Cardinality(matches(text, keywords))
        half == (Len(keywords) + 1) \div 2
        ceil == (5 * m + half - 1) \div half
    IN  IF ceil < 5 THEN ceil ELSE 5

\* the opening searched in the whole text
firstParagraphWholeText(text) == text

\* text.split('\n')[0]
firstParagraph(text) ==
    LET nl == {i \in 1..Len(text) : Char(text, i) = "\n"}
    IN  IF nl = {} THEN text
        ELSE SubSeq(text, 1, (CHOOSE i \in nl : \A j \in nl : i <= j) - 1)

\* text.split('\n').slice(-1)[0]
lastParagraph(text) ==
    LET nl == {i \in 1..Len(text) : Char(text, i) = "\n"}
    IN  IF nl = {} THEN text
        ELSE SubSeq(text, (CHOOSE i \in nl : \A j \in nl : j <= i) + 1, Len(text))

\* the keyword list of each criterion
Keywords ==
    [hasPersonalBackground |->
        <<"I", "my", "background", "experience", "grew up", "family">>,
     hasEducationalExperience |->
        <<"study", "university", "degree", "major", "course", "project">>,
     hasCareerGoals |->
        <<"goal", "career", "future", "aspire", "aim", "plan">>,
     hasSchoolChoice |->
        <<"program", "school", "university", "faculty", "research", "choose">>,
     hasUniqueness |->
        <<"unique", "different", "special", "distinguish", "stand out">>,
     hasSpecificExamples |->
        <<"example", "instance", "specifically", "particular", "case">>,
     hasStrongOpening |->
        <<"question", "quote", "anecdote", "statistic">>,
     hasCoherentStructure |->
        <<"however", "therefore", "moreover", "consequently", "additionally">>,
     hasConflictResolution |->
        <<"challenge", "problem", "obstacle", "overcome", "solve", "resolution">>,
     hasNarrativeDepth |->
        <<"because", "reason", "impact", "result", "learn", "reflect">>,
     hasStrongClosing |->
        <<"conclusion", "therefore", "finally", "future", "contribute">>]

hasPersonalBackground(text) == scoreByKeywords(text, Keywords.hasPersonalBackground)
hasEducationalExperience(text) == scoreByKeywords(text, Keywords.hasEducationalExperience)
hasCareerGoals(text) == scoreByKeywords(text, Keywords.hasCareerGoals)
hasSchoolChoice(text) == scoreByKeywords(text, Keywords.hasSchoolChoice)
hasUniqueness(text) == scoreByKeywords(text, Keywords.hasUniqueness)
hasSpecificExamples(text) == scoreByKeywords(text, Keywords.hasSpecificExamples)
hasStrongOpening(text) == scoreByKeywords(firstParagraph(text), Keywords.hasStrongOpening)
hasCoherentStructure(text) == scoreByKeywords(text, Keywords.hasCoherentStructure)
hasConflictResolution(text) == scoreByKeywords(text, Keywords.hasConflictResolution)
hasNarrativeDepth(text) == scoreByKeywords(text, Keywords.hasNarrativeDepth)
hasStrongClosing(text) == scoreByKeywords(lastParagraph(text), Keywords.hasStrongClosing)

\* a sentence counted as soon as one red flag holds
needsModificationAny(sentence) ==
    \/ Len(sentence) > 50
    \/ Len(sentence) < 10
    \/ \E w \in {"very", "really", "things", "stuff",
                  "always", "never", "all", "none", "every", "everyone"} :
          MatchesWord(toLowerCase(sentence), w)
    \/ \E be \in {"am", "is", "are", "was", "were"},
          adj \in {"passionate", "interested", "excited"},
          prep \in {"about", "in"} :
          Contains(toLowerCase(sentence), be \o " " \o adj \o " " \o prep)

\* at least two of the five red flags
needsModification(sentence) ==
    LET low == toLowerCase(sentence)
        redFlags ==
            <<Len(sentence) > 50,
              Len(sentence) < 10,
              \E w \in {"very", "really", "things", "stuff"} : MatchesWord(low, w),
              \E be \in {"am", "is", "are", "was", "were"},
                 adj \in {"passionate", "interested", "excited"},
                 prep \in {"about", "in"} :
                  Contains(low, be \o " " \o adj \o " " \o prep),
              \E w \in {"always", "never", "all", "none", "every", "everyone"} :
                  MatchesWord(low, w)>>
    IN  Cardinality({i \in 1..Len(redFlags) : redFlags[i]}) >= 2

\* criteria.reduce((sum, score) => sum + score, 0)
RECURSIVE Sum(_)
Sum(criteria) == IF criteria = << >> THEN 0 ELSE Head(criteria) + Sum(Tail(criteria))

\* the criteria array of evaluateContent
ContentCriteria(text) ==
    <<hasPersonalBackground(text), hasEducationalExperience(text),
      hasCareerGoals(text), hasSchoolChoice(text),
      hasUniqueness(text), hasSpecificExamples(text)>>

\* the criteria array of evaluateNarrative
NarrativeCriteria(text) ==
    <<hasStrongOpening(text), hasCoherentStructure(text),
      hasConflictResolution(text), hasNarrativeDepth(text),
      hasStrongClosing(text)>>

\* the content score cut off, not rounded
evaluateContentTruncated(text) ==
    LET criteria == ContentCriteria(text)
    IN  (Sum(criteria) * 100) \div (Len(criteria) * 5)

\* Math.round((totalPoints / (criteria.length * 5)) * 100)
evaluateContent_part002(text) ==
    LET criteria == ContentCriteria(text)
    IN  MathRound([num |-> Sum(criteria) * 100, den |-> Len(criteria) * 5])

evaluateNarrative_part002(text) ==
    LET criteria == NarrativeCriteria(text)
    IN  MathRound([num |-> Sum(criteria) * 100, den |-> Len(criteria) * 5])

\* sentences.filter(sentence => needsModification(sentence)).length
ModificationNeeded(sentences) == Len(SelectSeq(sentences, needsModification))

\* the language score with the upper bounds of the steps excluded
evaluateLanguageExclusive(sentences) ==
    LET modificationNeeded == ModificationNeeded(sentences)
        total == Len(sentences)
        score == IF total = 0 THEN 1
                 ELSE IF modificationNeeded * 100 < 5 * total  THEN 5
                 ELSE IF modificationNeeded * 100 < 10 * total THEN 4
                 ELSE IF modificationNeeded * 100 < 20 * total THEN 3
                 ELSE IF modificationNeeded * 100 < 30 * total THEN 2
                 ELSE 1
    IN  MathRound([num |-> score * 100, den |-> 5])

\* modificationNeeded / sentences.length * 100 is compared with 5, 10, 20
\* and 30 as the exact quotient. With no sentence the quotient is 0/0, NaN:
\* every comparison is false and the score is 1.
evaluateLanguage_part002(sentences) ==
    LET modificationNeeded == ModificationNeeded(sentences)
        total == Len(sentences)
        score == IF total = 0 THEN 1
                 ELSE IF modificationNeeded * 100 <= 5 * total  THEN 5
                 ELSE IF modificationNeeded * 100 <= 10 * total THEN 4
                 ELSE IF modificationNeeded * 100 <= 20 * total THEN 3
                 ELSE IF modificationNeeded * 100 <= 30 * total THEN 2
                 ELSE 1
    IN  MathRound([num |-> score * 100, den |-> 5])

\* text.split(/[.!?]+/)
RECURSIVE splitSentences(_)
splitSentences(s) ==
    LET ends == {i \in 1..Len(s) : Char(s, i) \in {".", "!", "?"}}
    IN  IF ends = {} THEN <<s>>
        ELSE LET i == CHOOSE e \in ends : \A f \in ends : e <= f
                 after == {j \in i..Len(s) : Char(s, j) \notin {".", "!", "?"}}
                 j == IF after = {} THEN Len(s) + 1
                      ELSE CHOOSE a \in after : \A b \in after : a <= b
             IN  <<SubSeq(s, 1, i - 1)>> \o splitSentences(SubSeq(s, j, Len(s)))

\* s => s.trim() as a filter: some character is not whitespace
NotBlank(s) == \E i \in 1..Len(s) : Char(s, i) \notin Whitespace

\* const sentences = text.split(/[.!?]+/).filter(s => s.trim())
Sentences(text) == SelectSeq(splitSentences(text), NotBlank)

\* evaluateText of the heuristic page: plain numbers, no feedback
evaluateText_part002(text) ==
    LET contentScore   == evaluateContent_part002(text)
        narrativeScore == evaluateNarrative_part002(text)
        languageScore  == evaluateLanguage_part002(Sentences(text))
        finalScore     == MathRound([num |-> contentScore * WEIGHTS.content
                                             + narrativeScore * WEIGHTS.narrative
                                             + languageScore * WEIGHTS.language,
                                     den |-> 10])
    IN  [content     |-> Num(contentScore),
         narrative   |-> Num(narrativeScore),
         language    |-> Num(languageScore),
         final_score |-> Num(finalScore)]

\* displayScores of the heuristic page
displayScores_part002(d, scores) ==
    [d EXCEPT !.score = [k \in Dims |-> <<scores[k].n>>],
              !.final = <<scores.final_score.n>>,
              !.resultsHidden = FALSE]

\* a run of the heuristic page: it is over within the click
HeuristicRun(text) ==
    [text      |-> text,
     pc        |-> "returned",
     sentences |-> Sentences(Flat(text)),
     modificationNeeded |-> ModificationNeeded(Sentences(Flat(text))),
     criteria  |-> [content   |-> ContentCriteria(Flat(text)),
                    narrative |-> NarrativeCriteria(Flat(text))],
     results   |-> evaluateText_part002(Flat(text))]

\* the click listener of the heuristic page
Click_part002 ==
    /\ ~btnDisabled
    /\ LET run == HeuristicRun(trim(sopValue))
       IN  /\ runs' = Append(runs, run)
           /\ dom' = displayScores_part002(dom, run.results)
    /\ UNCHANGED <<sopValue, btnDisabled, reading>>

\* what the user of the heuristic page types
HeuristicSymbols == {"I", "my", "very", " ", ".", "?", "\n"}

HeuristicTexts ==
    UNION {[1..n -> HeuristicSymbols] : n \in 0..MaxHeuristicLen}

\* the scenario of the specification: a statement touching the six content
\* criteria
ScenarioText ==
    <<"I grew up in a small town and studied engineering at my university.", " ",
      "My career goal is to become a researcher.", " ",
      "I chose this program because of its unique faculty.", " ",
      "For example, I built a specific robotics project.">>

\* a text in which every criterion finds at least half of its keywords
DenseText ==
    <<"I my background", " ", "study university degree", " ",
      "goal career future", " ", "program school faculty", " ",
      "unique different special", " ", "example instance case", " ",
      "question quote", " ", "however therefore moreover", " ",
      "challenge problem obstacle", " ", "because reason impact", " ",
      "conclusion finally">>

\* texts matching 3, 4 and 5 keywords of one list
KeywordTexts ==
    {<<"I grew up", " ", "my">>,
     <<"my family", " ", "background", " ", "experience">>,
     <<"I my background experience family">>}

\* single sentences, each with the red flags it raises: longer than 50
\* characters, shorter than 10, a vague word, a cliche phrase, an absolute
\* word
FlagSentences ==
    {[sentence |-> "I really think that we should always keep on working on this",
      flags    |-> {"long", "vague", "absolute"}],
     [sentence |-> "these ones read fine", flags |-> {}],
     [sentence |-> "fine", flags |-> {"short"}],
     [sentence |-> "we kept working on the plan for the robot over many long weeks",
      flags    |-> {"long"}],
     [sentence |-> "it is very good here", flags |-> {"vague"}],
     [sentence |-> "I am excited about it", flags |-> {"cliche"}],
     [sentence |-> "it is always good here", flags |-> {"absolute"}],
     [sentence |-> "a small everyday stuffing", flags |-> {}],
     [sentence |-> "very bad", flags |-> {"short", "vague"}],
     [sentence |-> "never", flags |-> {"short", "absolute"}],
     [sentence |-> "it is Really ALWAYS so", flags |-> {"vague", "absolute"}],
     [sentence |-> "I was interested in things", flags |-> {"vague", "cliche"}],
     [sentence |-> "we are passionate about stuffing small everyday thing in here",
      flags    |-> {"long", "cliche"}]}

\* a text of total sentences, the first flagged ones raising two red flags
\* and the others none
Fill(flagged, total) ==
    [i \in 1..total |-> IF i <= flagged THEN "very bad." ELSE "this is okay."]

\* flagged and total sentences around each step of the language score:
\* 0%, 100%, 5%, 4.8%, 10%, 9.1%, 20%, 16.7%, 30%, 25%, 33%, 40%
LanguageCases ==
    {<<0, 1>>, <<1, 1>>, <<1, 20>>, <<1, 21>>, <<2, 20>>, <<1, 11>>, <<1, 5>>,
     <<1, 6>>, <<3, 10>>, <<1, 4>>, <<1, 3>>, <<2, 5>>}

\* the same keywords in other letter cases and in another order
CaseOrderTexts ==
    {<<"my", " ", "family">>, <<"My", " ", "Family">>,
     <<"family", " ", "my">>, <<"MY", " ", "FAMILY">>, <<"my">>,
     <<"however", " ", "because">>, <<"Because", " ", "HOWEVER">>,
     <<"question", " ", "finally">>, <<"Finally", " ", "Question">>,
     <<"question", "\n", "finally">>, <<"QUESTION", "\n", "Finally">>,
     <<"finally", "\n", "question">>}

\* texts of one, two and three paragraphs that differ in one paragraph
ParagraphTexts ==
    {<<"question", " ", "finally">>,
     <<"question", "\n", "finally">>, <<"question", "\n", "my">>,
     <<"question", "\n", "my", "\n", "finally">>,
     <<"question", "\n", "quote", "\n", "finally">>,
     <<"question", "\n", "finally", " ", "quote", "\n", "finally">>,
     <<"question", "\n", "my", "\n", "question">>,
     <<"my", "\n", "my", "\n", "finally">>}

\* longer texts the user pastes
ScenarioTexts ==
    {ScenarioText, DenseText} \cup KeywordTexts \cup CaseOrderTexts \cup ParagraphTexts
        \cup {<<c.sentence>> : c \in FlagSentences}
        \cup {Fill(c[1], c[2]) : c \in LanguageCases}

NextHeuristic ==
    \/ \E s \in HeuristicTexts \cup ScenarioTexts :
          (runs = << >> /\ sopValue = << >> /\ Type(s))
    \/ (runs = << >> /\ Click_part002)

SpecHeuristic == Init /\ [][NextHeuristic]_vars

-----------------------------------------------------------------------------
(* Properties *)

\* the three dimension results of run r are in and aggregated
Aggregated(r) == runs[r].pc \in {"suggestions", "returned"}

\* round-half-up of c*0.4 + n*0.4 + l*0.2
RoundedWeightedSum(c, n, l) == (4 * c + 4 * n + 2 * l + 5) \div 10

\* a fraction equal to the integer n
IsInteger(q, n) == q.num = n * q.den

\* the failures of an outbound call the specification lists: rejection,
\* non-JSON body, no choices, missing or empty message content
CallFailure(a) ==
    \/ a.kind \in {"reject", "nonjson", "nochoices", "nocontent"}
    \/ a.kind = "content" /\ a.content = << >>

ErrorEvaluating(d) ==
    CASE d = "content"   -> <<"Error evaluating content. Please try again.">>
      [] d = "narrative" -> <<"Error evaluating narrative. Please try again.">>
      [] d = "language"  -> <<"Error evaluating language. Please try again.">>

\* C1: the final score of every run is round(content*0.4 + narrative*0.4 +
\* language*0.2) on the 0-100 scale, not divided by 100.
C1_FinalScoreRounded ==
    \A r \in DOMAIN runs :
        Aggregated(r) =>
            IsInteger(runs[r].results.final_score,
                      RoundedWeightedSum(runs[r].results.content.score,
                                         runs[r].results.narrative.score,
                                         runs[r].results.language.score))

\* C2: on any failure of a dimension's outbound call the evaluator returns
\* {score: 0, feedback: "Error evaluating <d>. Please try again."} and
\* nothing is thrown to evaluateText.
C2_FailureGivesFallback ==
    \A r \in DOMAIN runs :
        /\ runs[r].pc # "thrown"
        /\ \A d \in Dims :
              runs[r].call[d] = "done" /\ CallFailure(runs[r].answer[d]) =>
                  runs[r].results[d] = [score |-> 0, feedback |-> ErrorEvaluating(d)]

\* C3: whatever subset of the dimension calls fails, the run holds three
\* dimension results, a failed dimension scores 0, and the final score is
\* computed from the three scores: content failed, narrative 80 and
\* language 90 give content 0 and final score 50.
C3_PartialFailureAggregates ==
    \A r \in DOMAIN runs :
        /\ runs[r].pc # "thrown"
        /\ Aggregated(r) =>
              /\ \A d \in Dims :
                    /\ runs[r].results[d] # Pending
                    /\ CallFailure(runs[r].answer[d]) => runs[r].results[d].score = 0
              /\ (/\ CallFailure(runs[r].answer.content)
                   /\ runs[r].results.narrative.score = 80
                   /\ runs[r].results.language.score = 90)
                  => /\ runs[r].results.content.score = 0
                     /\ IsInteger(runs[r].results.final_score, 50)

\* C4: two runs on the same text in which the capability answers dimension
\* d identically have the same result for d, whatever the other calls of
\* the two runs came back with.
C4_DimensionIsolation ==
    \A r1 \in DOMAIN runs, r2 \in DOMAIN runs, d \in Dims :
        (/\ runs[r1].text = runs[r2].text
         /\ runs[r1].answer[d] # NoAnswer
         /\ runs[r1].answer[d] = runs[r2].answer[d])
        => /\ runs[r1].call[d] = "done" /\ runs[r2].call[d] = "done"
           /\ runs[r1].results[d] = runs[r2].results[d]

\* two runs whose content calls came back differently and whose narrative
\* calls came back alike
C4_Witness ==
    /\ Len(runs) = 2
    /\ runs[1].text = runs[2].text
    /\ Throws(runs[1].answer.content)
    /\ runs[2].answer.content.kind = "content"
    /\ runs[1].answer.narrative.kind = "content"
    /\ runs[1].answer.narrative = runs[2].answer.narrative
    /\ runs[1].results.narrative = runs[2].results.narrative
    /\ runs[1].results.narrative.score = 80

\* C5: the suggestion call is not started before the three dimension
\* evaluators have resolved, each with a parsed or a fallback result.
C5_SuggestionsAfterDimensions ==
    \A r \in DOMAIN runs :
        runs[r].call.suggestions # "idle" =>
            \A d \in Dims : /\ runs[r].call[d] = "done"
                            /\ runs[r].answer[d] # NoAnswer
                            /\ runs[r].results[d] # Pending

\* the suggestion call in flight after one dimension fell back and another
\* was parsed
C5_Witness ==
    \E r \in DOMAIN runs :
        /\ runs[r].call.suggestions = "inflight"
        /\ runs[r].results.content.feedback = ErrorEvaluating("content")
        /\ runs[r].results.narrative.score = 80

\* C6: generateModificationSuggestions never raises; when its call fails
\* it returns "Unable to generate suggestions at this time." and the run
\* returns with its three dimension results and final score unchanged.
C6_SuggestionFailureDegrades ==
    [][\A r \in DOMAIN runs :
          runs[r].pc = "suggestions" /\ runs'[r].pc # "suggestions" =>
              /\ runs'[r].pc = "returned"
              /\ \A k \in Dims \cup {"final_score"} :
                    runs'[r].results[k] = runs[r].results[k]
              /\ CallFailure(runs'[r].answer.suggestions) =>
                    runs'[r].results.suggestions = NoSuggestions]_vars

\* a run returned after its suggestion call failed
C6_Witness ==
    \E r \in DOMAIN runs :
        /\ runs[r].pc = "returned"
        /\ runs[r].answer.suggestions.kind = "nocontent"
        /\ runs[r].results.suggestions = NoSuggestions
        /\ runs[r].results.content.score = 80
        /\ dom.suggContent = NoSuggestions

\* C7: the instruction of generateModificationSuggestions reports each
\* dimension's numeric score and feedback as they are in the run's results.
C7_PromptReportsResults ==
    \A r \in DOMAIN runs :
        runs[r].call.suggestions # "idle" =>
            \A d \in Dims :
                /\ runs[r].prompt.score[d] = Interpolate(Num(runs[r].results[d].score))
                /\ runs[r].prompt.feedback[d] = runs[r].results[d].feedback

\* C8 as claimed: the three dimension calls fan out, so the narrative and
\* language calls are issued while the content call is in flight, and
\* aggregation waits for all three.
C8_FanOut ==
    \A r \in DOMAIN runs :
        /\ runs[r].call.content = "inflight" =>
              runs[r].call.narrative # "idle" /\ runs[r].call.language # "idle"
        /\ Aggregated(r) => \A d \in Dims : runs[r].call[d] = "done"

\* C8 as amended: the three dimension calls are issued one after the other,
\* content, narrative, language, each once the one before has resolved, and
\* aggregation waits for all three.
C8_Sequential ==
    \A r \in DOMAIN runs :
        /\ runs[r].call.narrative # "idle" => runs[r].call.content = "done"
        /\ runs[r].call.language # "idle" => runs[r].call.narrative = "done"
        /\ Aggregated(r) => \A d \in Dims : runs[r].call[d] = "done"

\* the language call in flight, the other two resolved
C8_Witness ==
    \E r \in DOMAIN runs :
        /\ runs[r].call.language = "inflight"
        /\ runs[r].call.content = "done"
        /\ runs[r].call.narrative = "done"

\* C9: the Evaluate button starts disabled and is disabled exactly when
\* the trimmed textarea is empty, so no run is entered with empty or
\* whitespace-only text, whatever was typed, uploaded and clicked.
C9_NoRunOnEmptyText ==
    /\ btnDisabled <=> \A i \in 1..Len(sopValue) : sopValue[i] \in Whitespace
    /\ \A r \in DOMAIN runs :
          /\ runs[r].text # << >>
          /\ \E i \in 1..Len(runs[r].text) : runs[r].text[i] \notin Whitespace

\* a run was started, then a whitespace-only file was read into the
\* textarea and the button is disabled again
C9_Witness ==
    /\ Len(runs) >= 1
    /\ sopValue = <<" ">>
    /\ reading = {}
    /\ btnDisabled

\* C10: every score a dimension evaluator returns is an integer in
\* [0,100], whatever the capability answered.
C10_ScoreInRange ==
    \A r \in DOMAIN runs, d \in Dims :
        runs[r].call[d] = "done" => runs[r].results[d].score \in 0..100

\* C11: with the three dimension scores in [0,100] and the weights 0.4,
\* 0.4, 0.2 the final score of evaluateText lies in [0,100].
C11_FinalScoreInRange ==
    \A r \in DOMAIN runs :
        (Aggregated(r) /\ \A d \in Dims : runs[r].results[d].score \in 0..100)
        => /\ 0 <= runs[r].results.final_score.num
           /\ runs[r].results.final_score.num <= 100 * runs[r].results.final_score.den

\* a run aggregated from the scores 90, 90 and 80
C11_Witness ==
    \E r \in DOMAIN runs :
        /\ Aggregated(r)
        /\ runs[r].results.content.score = 90
        /\ runs[r].results.narrative.score = 90
        /\ runs[r].results.language.score = 80
        /\ runs[r].results.final_score.num > 0

\* the run has returned an EvaluationResult: three dimension results, the
\* final score and the suggestions
HasResult(r) ==
    /\ runs[r].pc = "returned"
    /\ \A d \in Dims : runs[r].results[d] # Pending
    /\ runs[r].results.suggestions # << >>

\* C17: every outbound call eventually resolving or rejecting, a started
\* run eventually returns an EvaluationResult and never ends in an error
\* thrown by a dimension or by the suggestion step.
C17_RunTerminates ==
    /\ [](\A r \in DOMAIN runs : runs[r].pc # "thrown")
    /\ (runs # << >>) ~> (runs # << >> /\ HasResult(1))

\* a run that returned after a dimension call and the suggestion call failed
C17_Witness ==
    /\ Len(runs) = 1
    /\ HasResult(1)
    /\ Throws(runs[1].answer.language)
    /\ Throws(runs[1].answer.suggestions)

\* C18: a run issues each of its four outbound calls exactly once, a failed
\* call is never issued again, and each dimension result is produced once:
\* it does not change after its call resolved.
C18_OneCallEach ==
    /\ [](\A r \in DOMAIN runs :
            /\ \A c \in Calls :
                  /\ runs[r].issued[c] <= 1
                  /\ runs[r].issued[c] = 1 <=> runs[r].call[c] # "idle"
            /\ runs[r].pc = "returned" =>
                  /\ \A c \in Calls : runs[r].issued[c] = 1 /\ runs[r].call[c] = "done"
                  /\ \A d \in Dims : runs[r].results[d] # Pending)
    /\ [][\A r \in DOMAIN runs, d \in Dims :
            runs[r].call[d] = "done" => runs'[r].results[d] = runs[r].results[d]]_vars

\* a run that returned after its content call failed, four calls issued
C18_Witness ==
    \E r \in DOMAIN runs :
        /\ runs[r].pc = "returned"
        /\ runs[r].answer.content.kind = "reject"
        /\ \A c \in Calls : runs[r].issued[c] = 1

\* what evaluateText makes of the answers to the calls of run r alone
OwnDimension(r, d) ==
    CASE d = "content"   -> evaluateContent(runs[r].text, runs[r].answer[d]).value
      [] d = "narrative" -> evaluateNarrative(runs[r].text, runs[r].answer[d]).value
      [] d = "language"  -> evaluateLanguage(runs[r].text, runs[r].answer[d]).value

\* C19: of two runs in flight at the same time, each one's dimension
\* results, final score and suggestions are computed from the answers to
\* its own four calls only, however the calls of the two interleave.
C19_RunsIndependent ==
    \A r \in DOMAIN runs :
        /\ \A d \in Dims :
              runs[r].call[d] = "done" => runs[r].results[d] = OwnDimension(r, d)
        /\ Aggregated(r) =>
              runs[r].results.final_score =
                  FinalScore(OwnDimension(r, "content").score,
                             OwnDimension(r, "narrative").score,
                             OwnDimension(r, "language").score)
        /\ runs[r].pc = "returned" =>
              runs[r].results.suggestions =
                  generateModificationSuggestions(runs[r].answer.suggestions).value

\* the second run has overtaken the first, their content calls answered
\* differently
C19_Witness ==
    /\ Len(runs) = 2
    /\ runs[1].pc = "language"
    /\ runs[2].pc = "returned"
    /\ runs[1].results.content.score = 80
    /\ runs[2].results.content.score = 0

\* the content call of run r was answered with the message content s
Parsed(r, s) ==
    /\ runs[r].call.content = "done"
    /\ runs[r].answer.content = Answer("content", s)

\* C12: a response holding `Score: <n>/100` followed by `Feedback: <t>`
\* parses to the score n and to the feedback t without its surrounding
\* whitespace, t running to the end of the response or to the next "Score:".
C12_ScoreAndFeedback ==
    \A r \in DOMAIN runs : \A p \in ScoreThenFeedback :
        Parsed(r, Compose(p))
        => runs[r].results.content = [score |-> p.number.n, feedback |-> p.text.t]

\* the response "Score: 85/100\nFeedback: Strong opening." parsed
C12_Witness ==
    \E r \in DOMAIN runs :
        /\ Parsed(r, <<"Score:", " ", "8", "5", "/100", "\n",
                       "Feedback:", " ", "Strong", " ", "opening.">>)
        /\ runs[r].results.content =
               [score |-> 85, feedback |-> <<"Strong", " ", "opening.">>]

\* s holds a well-formed `Score: <int>/100`
WellFormedScore(s) ==
    \E i, j, k \in 1..Len(s) :
        /\ i < j /\ j < k
        /\ s[i] = "Score:" /\ s[k] = "/100"
        /\ \A m \in (i + 1)..(j - 1) : s[m] \in Whitespace
        /\ \A m \in j..(k - 1) : s[m] \in Digits

Holds(s, marker) == \E i \in 1..Len(s) : s[i] = marker

\* C13: the parser degrades each field on its own: without a well-formed
\* score the score is 0, without a "Feedback:" the feedback is "No feedback
\* available", the other field still being extracted, and with neither
\* marker the result is {0, "No feedback available"}.
C13_FieldsDegradeIndependently ==
    \A r \in DOMAIN runs : \A s \in ShortResponses :
        Parsed(r, s) =>
            /\ ~WellFormedScore(s) => runs[r].results.content.score = 0
            /\ ~Holds(s, "Feedback:") => runs[r].results.content.feedback = NoFeedback
            /\ s = <<"Feedback:", " ", "x">> =>
                  runs[r].results.content = [score |-> 0, feedback |-> <<"x">>]
            /\ s = <<"Score:", "8", "/100">> =>
                  runs[r].results.content = [score |-> 8, feedback |-> NoFeedback]

\* C14: the parser never raises: whatever the message content, a missing
\* one included, the dimension result is the record the parser returned,
\* never the fallback of the evaluator's catch, and for a missing content
\* it is score 0 with the parser's error message.
C14_ParserNeverRaises ==
    \A r \in DOMAIN runs :
        (runs[r].call.content = "done" /\ ~Throws(runs[r].answer.content))
        => /\ DOMAIN runs[r].results.content = {"score", "feedback"}
           /\ runs[r].results.content.score \in Nat
           /\ runs[r].results.content.feedback
                  # <<"Error evaluating content. Please try again.">>
           /\ runs[r].answer.content.kind = "nocontent"
                  => runs[r].results.content = [score |-> 0, feedback |-> ParseError]

\* a content call answered with a message that has no content
C14_Witness ==
    \E r \in DOMAIN runs :
        /\ runs[r].call.content = "done"
        /\ runs[r].answer.content.kind = "nocontent"
        /\ runs[r].results.content = [score |-> 0, feedback |-> ParseError]

\* the heuristic runs
HeuristicDone(r) == "criteria" \in DOMAIN runs[r]

\* C15: the heuristic evaluators return the DimensionResult of the
\* generation mode: a record with an integer score in [0,100] and a
\* feedback string.
C15_HeuristicDimensionResult ==
    \A r \in DOMAIN runs : \A d \in Dims :
        HeuristicDone(r)
        => /\ DOMAIN runs[r].results[d] = {"score", "feedback"}
           /\ runs[r].results[d].score \in 0..100

\* the criteria of evaluateContent, in the order of its criteria array
ContentCriteriaNames ==
    <<"hasPersonalBackground", "hasEducationalExperience", "hasCareerGoals",
      "hasSchoolChoice", "hasUniqueness", "hasSpecificExamples">>

\* for each of them, the matched keywords and the score of every text
ScoreTable ==
    [i \in DOMAIN ContentCriteriaNames |->
        {<<matches(Flat(B), Keywords[ContentCriteriaNames[i]]),
           scoreByKeywords(Flat(B), Keywords[ContentCriteriaNames[i]])>> :
            B \in HeuristicTexts}]

\* C20: scoreByKeywords is monotonic in the matched keywords: for each
\* keyword list, a text whose matched keywords are a subset of those of
\* another text scores at most what the other scores.
C20_ScoreMonotonic ==
    \A r \in DOMAIN runs :
        HeuristicDone(r) =>
            \A i \in DOMAIN ContentCriteriaNames :
                LET own == matches(Flat(runs[r].text), Keywords[ContentCriteriaNames[i]])
                IN  \A other \in ScoreTable[i] :
                        /\ own \subseteq other[1]
                              => runs[r].criteria.content[i] <= other[2]
                        /\ other[1] \subseteq own
                              => other[2] <= runs[r].criteria.content[i]

\* a text matching "I" and "my" scored 4 on personal background, above a
\* text that matches one of the two
C20_Witness ==
    \E r \in DOMAIN runs :
        /\ HeuristicDone(r)
        /\ runs[r].criteria.content[1] = 4
        /\ matches(Flat(runs[r].text), Keywords.hasPersonalBackground) = {1, 2}
        /\ \E other \in ScoreTable[1] : other[1] = {2} /\ other[2] = 2

\* C16: the language score of a text that holds no sentence is 100.
C16_NoSentenceTopScore ==
    \A r \in DOMAIN runs :
        (HeuristicDone(r) /\ runs[r].sentences = << >>)
        => runs[r].results.language = Num(100)

\* the run is over: it returned a result or threw
Finished(r) == runs[r].pc \in {"returned", "thrown"}

\* C28: once a run has finished, no score card and no final-score panel is
\* in the loading state any more.
C28_LoadingCleared ==
    (runs # << >> /\ \A r \in DOMAIN runs : Finished(r))
    => dom.loading \cap Cards = {}

\* the page shows the result of run r
Shows(r) ==
    /\ dom.score = [k \in Dims |-> <<runs[r].results[k].score>>]
    /\ dom.final = <<MathRound(runs[r].results.final_score)>>

\* C29: whenever the results section is visible, the dimension scores and
\* the final score on the page are those of the result of a run that has
\* returned.
C29_RenderAfterResult ==
    ~dom.resultsHidden
    => \E r \in DOMAIN runs : runs[r].pc = "returned" /\ Shows(r)

\* the page shows scores, feedback, final score and suggestions of run r
ShowsAll(r) ==
    /\ Shows(r)
    /\ dom.feedback = [k \in Dims |->
                          IF runs[r].results[k].feedback = << >> THEN NoFeedback
                          ELSE runs[r].results[k].feedback]
    /\ dom.suggContent = formatSuggestions(runs[r].results.suggestions)

\* C30: with two overlapping runs the page shows the result of one run as a
\* whole, and once both have finished it shows that of the run submitted
\* last.
C30_LastSubmittedShown ==
    /\ ~dom.resultsHidden
          => \E r \in DOMAIN runs : runs[r].pc = "returned" /\ ShowsAll(r)
    /\ (Len(runs) = 2 /\ \A r \in DOMAIN runs : runs[r].pc = "returned")
          => ShowsAll(2)

\* C22: on the scenario text each of the six content criteria scores at
\* least 1, and only whole words count: "studied" is no match of "study"
\* (educational experience matches "university" and "project") and
\* "researcher" none of "research" (school choice matches "program",
\* "university" and "faculty").
C22_ScenarioCriteria ==
    \A r \in DOMAIN runs :
        (HeuristicDone(r) /\ runs[r].text = ScenarioText)
        => /\ \A i \in 1..6 : runs[r].criteria.content[i] >= 1
           /\ matches(Flat(runs[r].text), Keywords.hasEducationalExperience) = {2, 6}
           /\ matches(Flat(runs[r].text), Keywords.hasSchoolChoice) = {1, 3, 4}

\* the scenario text evaluated
C22_Witness ==
    \E r \in DOMAIN runs :
        /\ HeuristicDone(r)
        /\ runs[r].text = ScenarioText
        /\ runs[r].criteria.content = <<5, 4, 4, 5, 2, 2>>

\* the criteria that search the whole text, with the place of their score
WholeTextCriteria ==
    {[name |-> ContentCriteriaNames[i], dim |-> "content", at |-> i] :
        i \in DOMAIN ContentCriteriaNames}
    \cup {[name |-> "hasCoherentStructure", dim |-> "narrative", at |-> 2],
          [name |-> "hasConflictResolution", dim |-> "narrative", at |-> 3],
          [name |-> "hasNarrativeDepth", dim |-> "narrative", at |-> 4]}

\* the least integer that is at least num / den
Ceiling(num, den) == CHOOSE k \in 0..num : k * den >= num /\ (k - 1) * den < num

Rounded(num, den) ==
    CHOOSE k \in 0..num : 2 * den * k <= 2 * num + den /\ 2 * num + den < 2 * den * (k + 1)

Step(flagged, total) ==
    IF flagged * 100 <= 5 * total THEN 100
    ELSE IF flagged * 100 <= 10 * total THEN 80
    ELSE IF flagged * 100 <= 20 * total THEN 60
    ELSE IF flagged * 100 <= 30 * total THEN 40
    ELSE 20

\* C25: with at least one sentence the language score is a step function of
\* p = flagged / all sentences with inclusive upper bounds: 100 up to 5%,
\* 80 up to 10%, 60 up to 20%, 40 up to 30%, 20 above; it does not rise
\* with the number of flagged sentences.
C25_LanguageSteps ==
    \A r \in DOMAIN runs :
        (HeuristicDone(r) /\ runs[r].sentences # << >>) =>
            LET total   == Len(runs[r].sentences)
                flagged == runs[r].modificationNeeded
                score   == runs[r].results.language.n
            IN  /\ score = Step(flagged, total)
                /\ score \in {20, 40, 60, 80, 100}
                /\ \A c \in LanguageCases :
                      runs[r].text = Fill(c[1], c[2]) => flagged = c[1] /\ total = c[2]
                /\ \A fewer \in 0..flagged :
                      evaluateLanguage_part002(Fill(fewer, total)) >= score

\* one flagged sentence of twenty, exactly 5%: still the top score
C25_Witness ==
    \E r \in DOMAIN runs :
        /\ HeuristicDone(r)
        /\ Len(runs[r].sentences) = 20
        /\ runs[r].modificationNeeded = 1
        /\ runs[r].results.language = Num(100)

\* C26: a sentence needs modification exactly when at least 2 of the five
\* flags hold: the sentence of 60 characters with "really" and "always" is
\* counted, the one of 20 characters without a flagged word is not, and one
\* whose only flag is its length is not.
C26_TwoFlags ==
    \A r \in DOMAIN runs : \A c \in FlagSentences :
        (HeuristicDone(r) /\ runs[r].text = <<c.sentence>>)
        => /\ runs[r].sentences = <<c.sentence>>
           /\ "long" \in c.flags <=> Len(c.sentence) > 50
           /\ "short" \in c.flags <=> Len(c.sentence) < 10
           /\ runs[r].modificationNeeded = IF Cardinality(c.flags) >= 2 THEN 1 ELSE 0

\* the sentence of 60 characters with "really" and "always" is counted
C26_Witness ==
    \E r \in DOMAIN runs :
        /\ HeuristicDone(r)
        /\ runs[r].sentences =
              <<"I really think that we should always keep on working on this">>
        /\ Len(runs[r].sentences[1]) = 60
        /\ runs[r].modificationNeeded = 1

\* every keyword of every list, in lower case
AllKeywords ==
    UNION {{toLowerCase(Keywords[name][k]) : k \in DOMAIN Keywords[name]} :
              name \in DOMAIN Keywords}

\* the paragraph that symbol i of the text t lies in, and the last one
ParagraphOf(t, i) == Cardinality({j \in 1..(i - 1) : t[j] = "\n"}) + 1
LastParagraphOf(t) == ParagraphOf(t, Len(t) + 1)

\* the keywords among the words of the paragraphs P of t, whatever their
\* letter case and their order
KeywordsIn(t, P) ==
    {toLowerCase(t[i]) : i \in {j \in 1..Len(t) : ParagraphOf(t, j) \in P}}
        \cap AllKeywords

\* the same keywords in the whole text, in the first and in the last
\* paragraph
SameKeywords(A, B) ==
    /\ KeywordsIn(A, 1..LastParagraphOf(A)) = KeywordsIn(B, 1..LastParagraphOf(B))
    /\ KeywordsIn(A, {1}) = KeywordsIn(B, {1})
    /\ KeywordsIn(A, {LastParagraphOf(A)}) = KeywordsIn(B, {LastParagraphOf(B)})

\* the content and the narrative score of each of the texts
CaseOrderScores ==
    [B \in CaseOrderTexts |->
        [content   |-> evaluateContent_part002(Flat(B)),
         narrative |-> evaluateNarrative_part002(Flat(B))]]

\* C21: the content and the narrative score depend only on which keywords
\* occur as whole words, in the paragraph each criterion inspects: two
\* texts with the same keywords, in whatever letter case and order, score
\* the same.
C21_CaseAndOrder ==
    \A r \in DOMAIN runs :
        (HeuristicDone(r) /\ runs[r].text \in CaseOrderTexts) =>
            \A B \in CaseOrderTexts :
                SameKeywords(runs[r].text, B) =>
                    /\ runs[r].results.content.n = CaseOrderScores[B].content
                    /\ runs[r].results.narrative.n = CaseOrderScores[B].narrative

\* "MY FAMILY" scores what "family my" scores, more than nothing
C21_Witness ==
    \E r \in DOMAIN runs :
        /\ HeuristicDone(r)
        /\ runs[r].text = <<"MY", " ", "FAMILY">>
        /\ SameKeywords(runs[r].text, <<"family", " ", "my">>)
        /\ runs[r].results.content.n = CaseOrderScores[<<"family", " ", "my">>].content
        /\ runs[r].results.content.n > 0

\* the symbols of the first and of the last paragraph of t
FirstParagraphOf(t) ==
    SelectSeq([i \in 1..Len(t) |-> IF ParagraphOf(t, i) = 1 /\ t[i] # "\n"
                                   THEN t[i] ELSE ""],
              LAMBDA x : x # "")
LastLineOf(t) ==
    SelectSeq([i \in 1..Len(t) |-> IF ParagraphOf(t, i) = LastParagraphOf(t) /\ t[i] # "\n"
                                   THEN t[i] ELSE ""],
              LAMBDA x : x # "")

\* the opening and the closing score of each of the texts
ParagraphScores ==
    [B \in ParagraphTexts |->
        [opening |-> hasStrongOpening(Flat(B)), closing |-> hasStrongClosing(Flat(B))]]

\* C27: the strong-opening score depends on the first paragraph only and
\* the strong-closing score on the last one only: texts that agree on that
\* paragraph have the same score whatever their other paragraphs, and in a
\* text of one paragraph both search the whole text.
C27_FirstAndLastParagraph ==
    \A r \in DOMAIN runs :
        HeuristicDone(r) =>
            /\ \A B \in ParagraphTexts :
                  /\ FirstParagraphOf(runs[r].text) = FirstParagraphOf(B)
                        => runs[r].criteria.narrative[1] = ParagraphScores[B].opening
                  /\ LastLineOf(runs[r].text) = LastLineOf(B)
                        => runs[r].criteria.narrative[5] = ParagraphScores[B].closing
            /\ LastParagraphOf(runs[r].text) = 1 =>
                  /\ runs[r].criteria.narrative[1] =
                        scoreByKeywords(Flat(runs[r].text), Keywords.hasStrongOpening)
                  /\ runs[r].criteria.narrative[5] =
                        scoreByKeywords(Flat(runs[r].text), Keywords.hasStrongClosing)

\* a text of three paragraphs whose middle one holds a hook and a
\* conclusion word: opening 3 and closing 2, as without them
C27_Witness ==
    \E r \in DOMAIN runs :
        /\ HeuristicDone(r)
        /\ runs[r].text = <<"question", "\n", "finally", " ", "quote", "\n", "finally">>
        /\ runs[r].criteria.narrative[1] = 3
        /\ runs[r].criteria.narrative[5] = 2
        /\ ParagraphScores[<<"question", "\n", "my", "\n", "finally">>]
              = [opening |-> 3, closing |-> 2]

====
